---- MODULE Spec2Model ----
(***************************************************************************)
(* CFProtected: the shared-member registry `share` (src/unnamed/part_000). *)
(*                                                                         *)
(* The JavaScript heap is modelled explicitly.  Every object `share`       *)
(* creates is a numbered cell:                                             *)
(*   datas   - the protected data objects (`protData`): own properties     *)
(*             written through a facade, and a prototype (a layer);        *)
(*   layers  - the objects `proto` created by Object.create: the           *)
(*             property descriptors of one registration and a prototype;   *)
(*   facades - the objects `retval`: the declared keys (get/set pairs      *)
(*             closing over protData), own properties assigned to          *)
(*             undeclared keys, the prototype and the $uper object;        *)
(*   supers  - the objects `retval.$uper`: copied descriptors + prototype. *)
(* defined is the set of identities created by abstract, final and class   *)
(* declarations since the start, objects the instances `new` returned,     *)
(* properties the public properties saveSelf and define have defined on    *)
(* instances and classes (own) and on the prototype objects of classes.    *)
(* Id 0 stands for the end of a prototype chain (Object.prototype for      *)
(* data/layer/$uper objects, null for facades).                            *)
(* memos maps a class identity to a WeakMap cell (0 = no entry), maps are  *)
(* the WeakMap cells: owner -> record {data, inheritance, $uper}.          *)
(*                                                                         *)
(* Owners are instances (registering under any class, in any order) and    *)
(* class identities registering statically under themselves.  Keys are     *)
(* names that Object.prototype does not define.                            *)
(***************************************************************************)
EXTENDS Integers, Sequences, FiniteSets, TLC

VARIABLES memos, maps, datas, layers, facades, supers, fields, ops, result,
          written, defined, objects, properties

vars == <<memos, maps, datas, layers, facades, supers, fields, ops, result,
         written, defined, objects, properties>>

----------------------------------------------------------------------------
(* Bounds *)
\* the number of calls (share or facade assignment) in one run
MaxOps == 3

----------------------------------------------------------------------------
(* The class hierarchy of src/test/test.mjs *)
Null == "null"
Classes == {"Base", "Derived", "NonParticipant", "GrandChild", "SuperTest"}
\* The identities created while the program runs (test.mjs:154-215):
\*   AWrap    = abstract(Base)                 a class extending Base
\*   ADerived = class ADerived extends AWrap
\*   FWrap    = final(Derived)                 a Proxy standing for Derived
Wrappers == {"AWrap", "FWrap"}
WrapOf == [AWrap |-> [kind |-> "abstract", of |-> "Base"],
           FWrap |-> [kind |-> "final", of |-> "Derived"]]
\* and a second direct subclass of Base, for hierarchies that branch:
\*   Sibling  = class Sibling extends Base
Identities == Classes \cup Wrappers \cup {"ADerived", "Sibling"}
\* Object.getPrototypeOf of an identity; for the Proxy FWrap the getPrototypeOf
\* trap (part_000:304) answers for Derived
Parent == [AWrap |-> "Base", FWrap |-> "Base",
           Base |-> Null, Derived |-> "Base", NonParticipant |-> "Base",
           GrandChild |-> "NonParticipant", SuperTest |-> "GrandChild",
           ADerived |-> "AWrap", Sibling |-> "Base"]
Instances == {"o1", "o2"}
Owners == Instances \cup Identities
\* NonParticipant never calls share
Sharers == Classes \ {"NonParticipant"}

RECURSIVE IsAncestor(_, _)
IsAncestor(a, c) ==
    IF Parent[c] = Null THEN FALSE
    ELSE Parent[c] = a \/ IsAncestor(a, Parent[c])

StrictlyBetween(a, c) ==
    {m \in Identities : IsAncestor(a, m) /\ IsAncestor(m, c)}

----------------------------------------------------------------------------
(* JavaScript values *)
Undefined == [t |-> "undefined"]
Num(n) == [t |-> "num", n |-> n]
TypeErr == [t |-> "TypeError"]
NoDesc == [kind |-> "none"]
EmptyMap == [x \in {} |-> Undefined]

SetKey(f, k, v) == [x \in (DOMAIN f) \cup {k} |-> IF x = k THEN v ELSE f[x]]

\* The private fields of an owner that its accessor closures read and write
\* (propTestVal, propTestVal2 in the tests)
InitField == [A |-> Num(10), B |-> Num(11)]

\* The heap as one value, so that reads can be evaluated in either state of a step
Heap == [d |-> datas, l |-> layers, f |-> facades, s |-> supers, x |-> fields]

----------------------------------------------------------------------------
(* Property lookup: the [[Get]] of the objects share builds *)

\* `key in prototype` / obj.hasOwnProperty(key) walk: the descriptor of k in
\* the chain of layers starting at layer l
RECURSIVE LayerLookup(_, _, _)
LayerLookup(h, l, k) ==
    IF l = 0 THEN NoDesc
    ELSE IF k \in DOMAIN h.l[l].props THEN h.l[l].props[k]
    ELSE LayerLookup(h, h.l[l].proto, k)

\* the descriptor protData[k] resolves to: an own property first, then the layers
DataLookup(h, d, k) ==
    IF k \in DOMAIN h.d[d].own
    THEN [kind |-> "data", value |-> h.d[d].own[k]]
    ELSE LayerLookup(h, h.d[d].proto, k)

\* reading through a descriptor: a data property yields its value, an accessor
\* property calls its getter (a closure over the owner's private field)
DescGet(h, desc) ==
    CASE desc.kind = "none" -> Undefined
      [] desc.kind = "data" -> desc.value
      [] desc.kind = "acc"  -> IF desc.get = "undef" THEN Undefined
                               ELSE h.x[desc.recv][desc.get]

\* protData[m]
DataGet(h, d, k) == DescGet(h, DataLookup(h, d, k))

\* the facade in the prototype chain of facade f that has property k (0: none)
RECURSIVE FacadeFind(_, _, _)
FacadeFind(h, f, k) ==
    IF f = 0 THEN 0
    ELSE IF k \in h.f[f].keys \/ k \in DOMAIN h.f[f].extra THEN f
    ELSE FacadeFind(h, h.f[f].proto, k)

\* facade[k]: the `get() { return protData[m]; }` of the facade declaring k
FacadeGet(h, f, k) ==
    LET g == FacadeFind(h, f, k) IN
    IF g = 0 THEN Undefined
    ELSE IF k \in h.f[g].keys THEN DataGet(h, h.f[g].data, k)
    ELSE h.f[g].extra[k]

\* $uper[k] for the $uper object s
RECURSIVE SuperLookup(_, _, _)
SuperLookup(h, s, k) ==
    IF s = 0 THEN NoDesc
    ELSE IF k \in DOMAIN h.s[s].props THEN h.s[s].props[k]
    ELSE SuperLookup(h, h.s[s].proto, k)

SuperGet(h, s, k) == DescGet(h, SuperLookup(h, s, k))

\* calling a function-valued member (test.mjs:19-21, 93-95, 127-129):
\*   "one"       () => 1
\*   "plusSuper" () => 1 + this.#prot.$uper.f(), #prot being the facade returned
\*               by the share call that registered the member
\* calling a value that is not a function throws a TypeError
RECURSIVE CallFn(_, _)
CallFn(h, fn) ==
    IF fn.t # "fn" THEN TypeErr
    ELSE IF fn.body = "one" THEN Num(1)
    ELSE LET r == CallFn(h, SuperGet(h, h.f[fn.fac].super, "f")) IN
         IF r.t = "num" THEN Num(1 + r.n) ELSE r

----------------------------------------------------------------------------
(* Property assignment: the [[Set]] of the objects share builds (strict mode) *)

\* protData[m] = v.  Returns the heap after the assignment and whether it threw.
DataSet(h, d, k, v) ==
    IF k \in DOMAIN h.d[d].own
    THEN [h |-> [h EXCEPT !.d[d].own = SetKey(@, k, v)], threw |-> FALSE]
    ELSE LET desc == LayerLookup(h, h.d[d].proto, k) IN
         IF desc.kind = "acc"
         THEN IF desc.set = "undef"
              THEN [h |-> h, threw |-> TRUE]
              ELSE [h |-> [h EXCEPT !.x[desc.recv][desc.set] = v], threw |-> FALSE]
         ELSE [h |-> [h EXCEPT !.d[d].own = SetKey(@, k, v)], threw |-> FALSE]

\* facade[k] = v: the `set(v) { protData[m] = v; }` of the facade declaring k;
\* an undeclared key becomes an own property of the facade assigned to
FacadeSet(h, f, k, v) ==
    LET g == FacadeFind(h, f, k) IN
    IF g # 0 /\ k \in h.f[g].keys
    THEN DataSet(h, h.f[g].data, k, v)
    ELSE [h |-> [h EXCEPT !.f[f].extra = SetKey(@, k, v)], threw |-> FALSE]

----------------------------------------------------------------------------
(* Arguments of share: JavaScript values by their typeof and a reference *)
Arg(ty, v) == [v |-> v, ty |-> ty]
Obj(v) == Arg("object", v)
Fun(v) == Arg("function", v)
Undef == Arg("undefined", "")
NullArg == Arg("null", "")
NumArg == Arg("number", "42")

TypeOf(a) == IF a.ty = "null" THEN "object" ELSE a.ty
Truthy(a) == a.ty \notin {"undefined", "null"}

\* accessor(desc): the tagged value share recognises (part_000:206-215)
Tagged(g, s) == [t |-> "tagged", get |-> g, set |-> s]

\* `key in desc` for a non-null object desc: a record of the keys get, set
\* and foo, each holding its value or the mark of a key the object lacks
Absent == "absent"
In(key, desc) == desc.v[key] # Absent

\* desc.key: undefined when the key is absent
Prop(desc, key) == IF In(key, desc) THEN desc.v[key] ELSE "undef"

\* accessor(desc), part_000:206-215: what the call returns, or that it threw.
\* typeof null is "object" and `"get" in null` raises a TypeError
accessor(desc) ==
    IF TypeOf(desc) = "object"
    THEN IF desc.ty = "null"
         THEN [threw |-> TRUE, ret |-> TypeErr]
         ELSE IF In("get", desc) \/ In("set", desc)
         THEN [threw |-> FALSE, ret |-> Tagged(Prop(desc, "get"), Prop(desc, "set"))]
         ELSE [threw |-> FALSE, ret |-> Undefined]
    ELSE [threw |-> FALSE, ret |-> Undefined]

\* a function-valued member, by what its body does.  lex is Absent for an
\* ordinary function or method, whose `this` is the receiver of the call; an
\* arrow function takes `this` from the place it was written in and a
\* function that is already bound keeps the receiver of its first bind, and
\* lex is then that object (test.mjs:4-22 writes methods, and arrow
\* functions in field initializers, where `this` is the instance)
Method(body, lex) == [t |-> "fn", body |-> body, lex |-> lex]

\* Property keys are strings or symbols; the symbol of the tests
\* (test.mjs:234, const symbolKey = Symbol('test'))
SymbolKey == "@@symbolKey"
Symbols == {SymbolKey}

\* Object.getOwnPropertyNames(o) and Object.getOwnPropertySymbols(o), o a map
\* from keys to values
OwnPropertyNames(o) == {k \in DOMAIN o : k \notin Symbols}
OwnPropertySymbols(o) == {k \in DOMAIN o : k \in Symbols}

\* faulty variant of getAllOwnKeys: the symbols are left out
getAllOwnKeys_NamesOnly(o) == OwnPropertyNames(o)

\* part_000:18-22
getAllOwnKeys(o) == OwnPropertyNames(o) \cup OwnPropertySymbols(o)

\* The members objects the runs pass to share.  one and plus hold methods;
\* arrow holds an arrow function written where `this` is another object than
\* the owner ("outer"), which is also what a function bound to that object
\* before the call is
MemberDefs ==
    [ none   |-> EmptyMap,
      k1     |-> ("k" :> Num(1)),
      k3     |-> ("k" :> Num(3)),
      accA   |-> ("k" :> Tagged("A", "A")),
      accB   |-> ("k" :> Tagged("B", "B")),
      ro     |-> ("k" :> Tagged("A", "undef")),
      wo     |-> ("k" :> Tagged("undef", "A")),
      sym    |-> ("k" :> Num(1) @@ SymbolKey :> Num(7)),
      one    |-> ("f" :> Method("one", Absent)),
      plus   |-> ("f" :> Method("plusSuper", Absent)),
      badGet |-> ("k" :> Tagged("bad", "undef")),
      uper   |-> ("$uper" :> Num(1)),
      arrow  |-> ("f" :> Method("one", "outer")) ]

----------------------------------------------------------------------------
(* share(inst, klass, members), part_000:72-182 *)

\* faulty variant of Overload: the arguments are never shuffled
Overload_None(inst, klass, members) == <<inst, klass, members>>

\* lines 75-80: the share(klass, members) overload
Overload(inst, klass, members) ==
    IF TypeOf(inst) = "function" /\ Truthy(klass) /\ TypeOf(klass) = "object"
       /\ members.ty = "undefined"
    THEN <<inst, inst, klass>>
    ELSE <<inst, klass, members>>

\* faulty variant of ValidInst: the `!inst` test is missing, null passes
ValidInst_NoNull(inst) == TypeOf(inst) \in {"function", "object"}

\* lines 82-90: argument validation, TRUE when no TypeError is thrown
ValidInst(inst) == Truthy(inst) /\ TypeOf(inst) \in {"function", "object"}
ValidKlass(klass) == Truthy(klass) /\ TypeOf(klass) = "function"
ValidMembers(members) == Truthy(members) /\ TypeOf(members) = "object"
Validate(inst, klass, members) ==
    ValidInst(inst) /\ ValidKlass(klass) /\ ValidMembers(members)

\* faulty variant of FindAncestor: only the direct parent is looked at
FindAncestor_ParentOnly(mm, a) ==
    IF a = Null THEN Null
    ELSE IF mm[a] # 0 THEN a
    ELSE Null

\* lines 104-107: the nearest ancestor identity that has a memo, from a upwards
RECURSIVE FindAncestor(_, _)
FindAncestor(mm, a) ==
    IF a = Null THEN Null
    ELSE IF mm[a] # 0 THEN a
    ELSE FindAncestor(mm, Parent[a])

\* faulty variant of AncestorKey: every instance uses the same key
AncestorKey_OneKey(inst, klass, ancestor) ==
    IF inst = klass THEN ancestor ELSE "o1"

\* line 118
AncestorKey(inst, klass, ancestor) == IF inst = klass THEN ancestor ELSE inst

\* line 110 and line 119: is there a memo for the key in the ancestor's WeakMap
HasMemo(mm, mp, ancestor, key) ==
    /\ ancestor # Null
    /\ mm[ancestor] # 0
    /\ key \in DOMAIN mp[mm[ancestor]]

\* line 119: ancestorMemo.get(ancestorKey) || {data: {}, $uper: {}, inheritance: null}
\* (fresh is the record of the new empty objects)
SeedMemo(mm, mp, ancestor, key, fresh) ==
    IF HasMemo(mm, mp, ancestor, key) THEN mp[mm[ancestor]][key] ELSE fresh

\* faulty variant of MemberDesc: a method is stored as it came, not bound
MemberDesc_MethodUnbound(m, inst, fac, k) ==
    IF m.t = "tagged"
    THEN [kind |-> "acc", get |-> m.get, set |-> m.set, recv |-> inst]
    ELSE IF m.t = "fn"
    THEN [kind |-> "data",
          value |-> [t |-> "fn", body |-> m.body, fac |-> fac, recv |-> Null,
                     id |-> <<fac, k>>, lex |-> m.lex]]
    ELSE [kind |-> "data", value |-> m]

\* lines 129-143: the descriptor member k becomes in the new layer.  Line 141
\* (bindDescriptor, lines 56-60) replaces a function by fn.bind(inst): a new
\* function object, made once by this share call (id names it), that runs fn
\* with inst as receiver (recv) unless fn is an arrow function or is already
\* bound, which bind cannot give another receiver; fac is the facade the
\* member's closure refers to
MemberDesc(m, inst, fac, k) ==
    IF m.t = "tagged"
    THEN [kind |-> "acc", get |-> m.get, set |-> m.set, recv |-> inst]
    ELSE IF m.t = "fn"
    THEN [kind |-> "data",
          value |-> [t |-> "fn", body |-> m.body, fac |-> fac,
                     recv |-> IF m.lex = Absent THEN inst ELSE m.lex,
                     id |-> <<fac, k>>, lex |-> m.lex]]
    ELSE [kind |-> "data", value |-> m]

\* Object.create (line 129) throws for a getter or setter that is neither a
\* function nor undefined
CreateThrows(members) ==
    \E k \in DOMAIN members :
        members[k].t = "tagged" /\ (members[k].get = "bad" \/ members[k].set = "bad")

\* line 155: defining the data property "$uper" over the non-configurable
\* accessor line 148 defined for a member named "$uper" throws
UperThrows(members) == "$uper" \in DOMAIN members

\* faulty variant of SuperProps: nothing is copied to $uper
SuperProps_None(h, prototype, mKeys) == EmptyMap

\* lines 158-166: the descriptors copied to $uper
SuperProps(h, prototype, mKeys) ==
    LET ks == {k \in mKeys : LayerLookup(h, prototype, k).kind # "none"} IN
    [k \in ks |-> LayerLookup(h, prototype, k)]

\* the outcome of a call: the operation, its arguments, whether it returned,
\* the facade it returned or assigned through, and the source line that threw
Outcome(op, args, ok, fac, at) ==
    [op |-> op, args |-> args, ok |-> ok, fac |-> fac, at |-> at]

\* the registry and the objects share builds, as one value, so that the share
\* calls a declaration or a construction makes can follow one another in a step
Registry ==
    [memos |-> memos, maps |-> maps, datas |-> datas, layers |-> layers,
     facades |-> facades, supers |-> supers, written |-> written]

\* lines 103-181, for arguments that passed validation: inst an owner, klass a
\* class identity, members a map from keys to member values; r is the registry
\* the call finds, the answer the outcome of the call and the registry it leaves
ShareValid(r, inst, klass, members, args) ==
    LET ancestor  == FindAncestor(r.memos, Parent[klass])
        \* lines 113-115
        newMap    == r.memos[klass] = 0
        mapId     == IF newMap THEN Len(r.maps) + 1 ELSE r.memos[klass]
        memos1    == [r.memos EXCEPT ![klass] = mapId]
        maps1     == IF newMap THEN Append(r.maps, EmptyMap) ELSE r.maps
        \* lines 118-120
        key       == AncestorKey(inst, klass, ancestor)
        fresh     == [data |-> Len(r.datas) + 1, inheritance |-> 0, super |-> 0]
        memo      == SeedMemo(r.memos, r.maps, ancestor, key, fresh)
        datas0    == IF memo = fresh
                     THEN Append(r.datas, [own |-> EmptyMap, proto |-> 0])
                     ELSE r.datas
        protData  == memo.data
        \* lines 127-144
        prototype == datas0[protData].proto
        fid       == Len(r.facades) + 1
        lid       == Len(r.layers) + 1
        sid       == Len(r.supers) + 1
        mKeys     == getAllOwnKeys(members)
        proto     == [props |-> [k \in mKeys |-> MemberDesc(members[k], inst, fid, k)],
                      proto |-> prototype]
        datas1    == [datas0 EXCEPT ![protData].proto = lid]
        \* lines 147-172
        retval    == [keys |-> mKeys, data |-> protData, proto |-> memo.inheritance,
                      super |-> sid, extra |-> EmptyMap, owner |-> inst,
                      klass |-> klass, layer |-> lid]
        heap      == [d |-> r.datas, l |-> r.layers, f |-> r.facades,
                      s |-> r.supers, x |-> fields]
        uper      == [props |-> SuperProps(heap, prototype, mKeys),
                      proto |-> memo.super]
    IN
    IF CreateThrows(members)
    THEN [result |-> Outcome("share", args, FALSE, 0, "129"),
          reg |-> [r EXCEPT !.memos = memos1, !.maps = maps1]]
    ELSE IF UperThrows(members)
    THEN [result |-> Outcome("share", args, FALSE, 0, "155"),
          reg |-> [r EXCEPT !.memos = memos1, !.maps = maps1,
                            !.layers = Append(r.layers, proto),
                            !.datas = datas1]]
    ELSE [result |-> Outcome("share", args, TRUE, fid, ""),
          reg |-> [r EXCEPT
                     !.memos = memos1,
                     \* lines 175-179
                     !.maps = [maps1 EXCEPT ![mapId] =
                                  SetKey(@, inst, [data |-> protData,
                                                   inheritance |-> fid,
                                                   super |-> sid])],
                     !.layers = Append(r.layers, proto),
                     !.datas = datas1,
                     !.facades = Append(r.facades, retval),
                     !.supers = Append(r.supers, uper),
                     \* history: a registration that redeclares k ends the
                     \* reign of the value last assigned to k for this owner
                     !.written = [x \in {y \in DOMAIN r.written :
                                           ~(y[1] = inst /\ y[2] \in mKeys)}
                                  |-> r.written[x]]]]

\* lines 72-182: share(inst, klass, members) called with any three JavaScript
\* values on registry r
ShareCall(r, inst, klass, members) ==
    LET a == Overload(inst, klass, members) IN
    IF Validate(a[1], a[2], a[3])
    THEN ShareValid(r, a[1].v, a[2].v, MemberDefs[a[3].v], <<inst, klass, members>>)
    ELSE [result |-> Outcome("share", <<inst, klass, members>>, FALSE, 0, "82"),
          reg |-> r]

\* the registry after a step is r
Becomes(r) ==
    /\ memos' = r.memos
    /\ maps' = r.maps
    /\ datas' = r.datas
    /\ layers' = r.layers
    /\ facades' = r.facades
    /\ supers' = r.supers
    /\ written' = r.written

\* a call of share as a step of its own
share(inst, klass, members) ==
    LET c == ShareCall(Registry, inst, klass, members) IN
    /\ ops < MaxOps
    /\ ops' = ops + 1
    /\ UNCHANGED <<fields, defined, objects, properties>>
    /\ Becomes(c.reg)
    /\ result' = c.result

\* facade[k] = v through a facade some share call returned
Assign(f, k, v) ==
    LET r == FacadeSet(Heap, f, k, v)
        g == FacadeFind(Heap, f, k)
        \* history: the value last assigned to k for the owner and the facade
        \* it was assigned through
        w == [v |-> v, by |-> f]
    IN
    /\ ops < MaxOps
    /\ ops' = ops + 1
    /\ datas' = r.h.d
    /\ facades' = r.h.f
    /\ fields' = r.h.x
    /\ UNCHANGED <<memos, maps, layers, supers, defined, objects, properties>>
    /\ written' = IF r.threw THEN written
                  ELSE SetKey(written, <<facades[f].owner, k>>, w)
    /\ result' = Outcome("set", <<k, v>>, ~r.threw, f, "")

\* faulty variant of Fetched: the getter binds the function again on every
\* read, so that each read yields a function object of its own
Fetched_Rebind(f, k, via) ==
    LET v == IF via = "facade" THEN FacadeGet(Heap, f, k)
             ELSE SuperGet(Heap, facades[f].super, k)
    IN IF v.t = "fn" THEN [v EXCEPT !.id = <<0 - ops - 1, k>>] ELSE v

\* facade[k] or facade.$uper[k]: what the read yields.  The facade getter
\* returns protData[k] (line 149) and $uper holds a copy of the layer's
\* descriptor (lines 158-166): both yield the value share stored
Fetched(f, k, via) ==
    IF via = "facade" THEN FacadeGet(Heap, f, k)
    ELSE SuperGet(Heap, facades[f].super, k)

\* the outcome of reading or calling a member: the value the read obtained
\* (fn), what the call returned and the receiver the function ran with.
\* History: last is what the step before this one obtained for the same
\* member through the same facade, when that step was a read or a call too
\* (Undefined otherwise)
Called(op, args, ok, fac, ret, recv, fn) ==
    [op |-> op, args |-> args, ok |-> ok, fac |-> fac, at |-> "",
     ret |-> ret, recv |-> recv, fn |-> fn,
     last |-> IF /\ result.op \in {"read", "call"}
                 /\ result.fac = fac
                 /\ result.args = args
              THEN result.fn
              ELSE Undefined]

\* facade.k() or facade.$uper.k(): the member is read and called; calling
\* what is not a function raises a TypeError, and so does a member whose
\* body calls a $uper.f that is not a function: the call returned (ok) only
\* when no TypeError was raised.  A function share stored runs with the
\* receiver bind gave it (part_000:56-60), also when its body throws later
Invoke(f, k, via) ==
    LET v == Fetched(f, k, via)
        isFn == v.t = "fn"
        ret == CallFn(Heap, v)
    IN
    /\ ops < MaxOps
    /\ ops' = ops + 1
    /\ result' = Called("call", <<k, via>>, ret # TypeErr, f, ret,
                        IF isFn THEN v.recv ELSE Null, v)
    /\ UNCHANGED <<memos, maps, datas, layers, facades, supers, fields,
                   written, defined, objects, properties>>

\* const g = facade.k or facade.$uper.k: the member is read and not called
Read(f, k, via) ==
    LET v == Fetched(f, k, via) IN
    /\ ops < MaxOps
    /\ ops' = ops + 1
    /\ result' = Called("read", <<k, via>>, TRUE, f, v, Null, v)
    /\ UNCHANGED <<memos, maps, datas, layers, facades, supers, fields,
                   written, defined, objects, properties>>

----------------------------------------------------------------------------
(* abstract(klass) and final(klass), part_000:225-319 *)

StrArg == Arg("string", "name")

\* the outcome of a call that returns an identity or an object
Returned(op, args, ok, ret, at) ==
    [op |-> op, args |-> args, ok |-> ok, fac |-> 0, at |-> at, ret |-> ret]

\* the wrapper a call of abstract or final creates for klass
WrapperFor(kind, klass) ==
    CHOOSE w \in Wrappers : WrapOf[w] = [kind |-> kind, of |-> klass]

IsAbstract(f) == f \in Wrappers /\ WrapOf[f].kind = "abstract"
IsFinal(f) == f \in Wrappers /\ WrapOf[f].kind = "final"

\* lines 238-240 and 312-314: memos.set(retval, memos.get(klass))
AliasMemos(mm, w, klass) ==
    IF mm[klass] # 0 THEN [mm EXCEPT ![w] = mm[klass]] ELSE mm

\* faulty variant of AliasMaps: the record klass holds for itself is not copied
AliasMaps_None(mm, mp, w, klass) == mp

\* lines 241 and 315: memo.set(retval, memo.get(klass)); storing undefined
\* reads like no entry
AliasMaps(mm, mp, w, klass) ==
    IF mm[klass] # 0 /\ klass \in DOMAIN mp[mm[klass]]
    THEN [mp EXCEPT ![mm[klass]] = SetKey(@, w, mp[mm[klass]][klass])]
    ELSE mp

\* abstract(klass), lines 225-254
abstract(klass) ==
    /\ UNCHANGED <<datas, layers, facades, supers, fields, ops, written, objects,
                   properties>>
    /\ IF TypeOf(klass) = "function"
       THEN LET retval == WrapperFor("abstract", klass.v) IN
            /\ retval \notin defined
            /\ defined' = defined \cup {retval}
            /\ memos' = AliasMemos(memos, retval, klass.v)
            /\ maps' = AliasMaps(memos, maps, retval, klass.v)
            /\ result' = Returned("abstract", <<klass>>, TRUE, retval, "")
       ELSE /\ UNCHANGED <<memos, maps, defined>>
            /\ result' = IF TypeOf(klass) = "string"
                         THEN Returned("abstract", <<klass>>, TRUE, "thrower", "")
                         ELSE Returned("abstract", <<klass>>, FALSE, Null, "250")

\* final(klass), lines 262-319
final(klass) ==
    LET retval == WrapperFor("final", klass.v) IN
    /\ retval \notin defined
    /\ defined' = defined \cup {retval}
    /\ memos' = AliasMemos(memos, retval, klass.v)
    /\ maps' = AliasMaps(memos, maps, retval, klass.v)
    /\ UNCHANGED <<datas, layers, facades, supers, fields, ops, written, objects,
                   properties>>
    /\ result' = Returned("final", <<klass>>, TRUE, retval, "")

\* faulty variant of ProtoProperty: a wrapper answers like a class
ProtoProperty_Plain(f) == [t |-> "prototype", of |-> f]

\* f.prototype: the get trap of a final wrapper answers undefined for
\* "prototype" (lines 292-296); a class has its prototype object
ProtoProperty(f) ==
    IF IsFinal(f) THEN Undefined ELSE [t |-> "prototype", of |-> f]

\* a class body that does not call share
NoShare == "noshare"

\* `class sub extends sup { static #s = share(this, {...}) }`: the declaration
\* throws a TypeError unless sup.prototype is an object; then the static
\* initializer of the body, if it has one, runs share(sub, body) before the
\* class is bound (test.mjs:164-169), and a throw of share is a throw of the
\* declaration
Extend(sub, sup, body) ==
    LET c == IF body = NoShare
             THEN [result |-> Outcome("share", <<>>, TRUE, 0, ""), reg |-> Registry]
             ELSE ShareCall(Registry, Fun(sub), Obj(body), Undef)
    IN
    /\ sup \in defined
    /\ sub \notin defined
    /\ UNCHANGED <<fields, ops, objects, properties>>
    /\ IF ProtoProperty(sup) = Undefined
       THEN /\ UNCHANGED <<memos, maps, datas, layers, facades, supers, written,
                           defined>>
            /\ result' = Returned("extends", <<sub, sup, body>>, FALSE, Null, "class")
       ELSE /\ Becomes(c.reg)
            /\ defined' = IF c.result.ok THEN defined \cup {sub} ELSE defined
            /\ result' = IF c.result.ok
                         THEN Returned("extends", <<sub, sup, body>>, TRUE, sub, "")
                         ELSE Returned("extends", <<sub, sup, body>>, FALSE, Null,
                                       c.result.at)

\* `f.prototype = {}` on a wrapper: the set trap (line 299) hands the write to
\* the wrapped class, whose prototype property is not writable, and the
\* assignment throws in strict code; on a class it throws likewise
AssignPrototype(f) ==
    /\ f \in defined
    /\ UNCHANGED <<memos, maps, datas, layers, facades, supers, fields, ops,
                   written, objects, defined, properties>>
    /\ result' = Returned("setPrototypeProperty", <<f>>, FALSE, Null, "299")

\* does Reflect.construct(f, [], newTarget) throw: the construct trap of a
\* final wrapper (lines 275-278), the constructor of an abstract wrapper that
\* f is or extends (lines 230-233)
ConstructThrows(f, newTarget) ==
    IF IsFinal(f) THEN newTarget # f
    ELSE \E w \in Wrappers :
            IsAbstract(w) /\ (w = f \/ IsAncestor(w, f)) /\ newTarget = w

\* the object a construction returns: the class whose prototype object heads
\* its chain, and its `constructor` (lines 279-289 for a final wrapper)
Constructed(f, newTarget) ==
    IF IsFinal(f)
    THEN [protoOf |-> WrapOf[f].of, constructor |-> f]
    ELSE [protoOf |-> newTarget, constructor |-> newTarget]

\* A property descriptor: each of its fields holds its value or the mark of a
\* field the descriptor lacks.  A data property has value and writable, an
\* accessor property has get
Descriptor(value, get, writable, enumerable, configurable) ==
    [value |-> value, get |-> get, writable |-> writable,
     enumerable |-> enumerable, configurable |-> configurable]

\* the object a property defined on self lands on: the defineProperty trap of
\* a final wrapper defines it on the wrapped class (line 302)
Holder(self) == IF IsFinal(self) THEN WrapOf[self].of ELSE self

\* saveSelf(self, name), lines 191-196, on the public properties p: whether it
\* threw and the properties it leaves
SaveOn(p, self, name) ==
    LET \* Object.defineProperty(self, name, {value: self}) (line 192) is
        \* refused, with a TypeError, when self is no object or holds name
        \* with another value: the property is neither writable nor
        \* configurable
        refused == \/ TypeOf(self) \notin {"object", "function"}
                   \/ ~Truthy(self)
                   \/ /\ name \in DOMAIN p.own[Holder(self.v)]
                      /\ p.own[Holder(self.v)][name].value # self.v
        \* line 193: self is a function whose prototype is an object without
        \* cla$$; a final wrapper answers undefined for prototype (292-296)
        klass == /\ TypeOf(self) = "function"
                 /\ ProtoProperty(self.v) # Undefined
                 /\ "cla$$" \notin DOMAIN p.proto[self.v]
        own1 == [p.own EXCEPT ![Holder(self.v)] =
                    SetKey(@, name,
                           Descriptor(self.v, Absent, "false", "false", "false"))]
        \* line 194: self.prototype.constructor is self
        proto1 == IF klass
                  THEN [p.proto EXCEPT ![self.v] =
                           SetKey(@, "cla$$",
                                  Descriptor(self.v, Absent, "false", "false",
                                             "true"))]
                  ELSE p.proto
    IN
    IF refused THEN [threw |-> TRUE, properties |-> p]
    ELSE [threw |-> FALSE, properties |-> [proto |-> proto1, own |-> own1]]

\* a call of saveSelf as a step of its own
saveSelf(self, name) ==
    LET c == SaveOn(properties, self, name) IN
    /\ ops < MaxOps
    /\ ops' = ops + 1
    /\ UNCHANGED <<memos, maps, datas, layers, facades, supers, fields, written,
                   defined>>
    /\ properties' = c.properties
    \* self.constructor now reads the own property
    /\ objects' = IF ~c.threw /\ name = "constructor" /\ self.v \in DOMAIN objects
                  THEN [objects EXCEPT ![self.v].constructor = self.v]
                  ELSE objects
    /\ result' = IF c.threw
                 THEN Returned("saveSelf", <<self, name>>, FALSE, Null, "192")
                 ELSE Returned("saveSelf", <<self, name>>, TRUE, "undefined", "")

\* the class whose constructor a construction of f runs first: the construct
\* trap of a final wrapper hands over to the wrapped class (line 281)
Target(f) == IF IsFinal(f) THEN WrapOf[f].of ELSE f

\* the classes of the chain of c, base first: a field initializer and the
\* rest of a constructor run when super() has returned, the constructor of an
\* abstract wrapper only calls super(...args) (line 234)
RECURSIVE CtorChain(_)
CtorChain(c) ==
    IF c = Null THEN << >>
    ELSE CtorChain(Parent[c]) \o (IF c \in Wrappers THEN << >> ELSE <<c>>)

CtorClasses(c) == {CtorChain(c)[i] : i \in 1..Len(CtorChain(c))}

\* The constructors of the classes of chain run one after another for the new
\* object o.  What a class does is m[c]: its field initializer
\* `#prot = share(this, c, members)`, if it has one, and then its constructor
\* body `saveSelf(this, save)`, if it makes that call (test.mjs:9-25, 53-66,
\* 160, 166, 359); a call that throws ends the run
RECURSIVE RunConstructors(_, _, _, _, _)
RunConstructors(r, p, o, chain, m) ==
    IF chain = << >> THEN [threw |-> FALSE, reg |-> r, properties |-> p, at |-> ""]
    ELSE LET b == m[Head(chain)]
             c == IF b.members = NoShare
                  THEN [result |-> Outcome("share", <<>>, TRUE, 0, ""), reg |-> r]
                  ELSE ShareCall(r, Obj(o), Fun(Head(chain)), Obj(b.members))
             v == IF b.save = Absent THEN [threw |-> FALSE, properties |-> p]
                  ELSE SaveOn(p, Obj(o), b.save)
         IN
         IF ~c.result.ok
         THEN [threw |-> TRUE, reg |-> c.reg, properties |-> p, at |-> c.result.at]
         ELSE IF v.threw
         THEN [threw |-> TRUE, reg |-> c.reg, properties |-> p, at |-> "192"]
         ELSE RunConstructors(c.reg, v.properties, o, Tail(chain), m)

\* Reflect.construct(f, [], newTarget), `new f` when newTarget is f; o is the
\* object it creates and m what the constructor of each class of the chain
\* does.  The checks of the wrappers come before any constructor of a wrapped
\* class runs (lines 230-234, 275-281); the constructors then run, base
\* first, before the object is returned.  An own property named constructor
\* that a constructor saved is what obj.constructor reads
New(f, newTarget, o, m) ==
    LET run == RunConstructors(Registry, properties, o, CtorChain(Target(f)), m)
        obj == Constructed(f, newTarget)
    IN
    /\ f \in Classes \cup defined
    /\ o \notin DOMAIN objects
    /\ UNCHANGED <<fields, ops, defined>>
    /\ IF ConstructThrows(f, newTarget)
       THEN /\ UNCHANGED <<memos, maps, datas, layers, facades, supers, written,
                           objects, properties>>
            /\ result' = Returned("new", <<f, newTarget>>, FALSE, Null, "TypeError")
       ELSE /\ Becomes(run.reg)
            /\ properties' = IF run.threw THEN properties ELSE run.properties
            /\ objects' =
                  IF run.threw THEN objects
                  ELSE SetKey(objects, o,
                              IF "constructor" \in DOMAIN run.properties.own[o]
                              THEN [obj EXCEPT !.constructor = o]
                              ELSE obj)
            /\ result' = IF run.threw
                         THEN Returned("new", <<f, newTarget>>, FALSE, Null, run.at)
                         ELSE Returned("new", <<f, newTarget>>, TRUE, o, "")

\* obj instanceof c
InstanceOf(obj, c) == obj.protoOf = c \/ IsAncestor(c, obj.protoOf)

----------------------------------------------------------------------------
(* define(tgt, defs), part_000:330-359 *)

\* the own property names of an object def (line 341)
DefNames(def) ==
    {k \in {"value", "get", "writable", "enumerable", "configurable"} :
        def[k] # Absent}

\* lines 341-347: a definition gets defaults when it is an object with a
\* value and with no other fields than the four of a data descriptor
TakesDefaults(def) ==
    /\ def.ty = "object"
    /\ DefNames(def) \subseteq {"enumerable", "configurable", "writable", "value"}
    /\ "value" \in DefNames(def)

\* a field the object has, or else y
Or(x, y) == IF x = Absent THEN y ELSE x

\* lines 348-356
Defaulted(def) ==
    IF TakesDefaults(def)
    THEN [def EXCEPT !.enumerable = Or(@, "true"), !.configurable = Or(@, "true"),
                     !.writable = Or(@, "true")]
    ELSE def

\* ToPropertyDescriptor, called by Object.defineProperties (line 358), throws
\* for a description that is no object and for one that has get together
\* with value or writable
BadDescription(def) ==
    \/ def.ty # "object"
    \/ "get" \in DefNames(def) /\ DefNames(def) \cap {"value", "writable"} # {}

IsAccessor(d) == d.get # Absent

\* the property a description creates where there was none
Created(def) ==
    IF IsAccessor(def)
    THEN Descriptor(Absent, def.get, Absent, Or(def.enumerable, "false"),
                    Or(def.configurable, "false"))
    ELSE Descriptor(Or(def.value, "undefined"), Absent, Or(def.writable, "false"),
                    Or(def.enumerable, "false"), Or(def.configurable, "false"))

\* the description has no field of a data or of an accessor descriptor
Generic(def) == DefNames(def) \cap {"value", "writable", "get"} = {}

\* a property that is not configurable refuses a description that would change it
Refused(cur, def) ==
    /\ cur.configurable = "false"
    /\ \/ def.configurable = "true"
       \/ def.enumerable # Absent /\ def.enumerable # cur.enumerable
       \/ ~Generic(def) /\ IsAccessor(def) # IsAccessor(cur)
       \/ /\ ~IsAccessor(def)
          /\ ~IsAccessor(cur)
          /\ cur.writable = "false"
          /\ \/ def.writable = "true"
             \/ def.value # Absent /\ def.value # cur.value
       \/ IsAccessor(def) /\ IsAccessor(cur) /\ def.get # cur.get

\* the property after a description it accepts was applied
Redefined(cur, def) ==
    IF ~Generic(def) /\ IsAccessor(def) # IsAccessor(cur)
    THEN Created([def EXCEPT !.enumerable = Or(@, cur.enumerable),
                             !.configurable = Or(@, cur.configurable)])
    ELSE Descriptor(IF IsAccessor(cur) THEN Absent ELSE Or(def.value, cur.value),
                    IF IsAccessor(cur) THEN Or(def.get, cur.get) ELSE Absent,
                    IF IsAccessor(cur) THEN Absent ELSE Or(def.writable, cur.writable),
                    Or(def.enumerable, cur.enumerable),
                    Or(def.configurable, cur.configurable))

\* Object.defineProperties defines the properties in the order of the keys and
\* stops at the first one refused; what was defined before stays
RECURSIVE DefineEach(_, _, _)
DefineEach(props, keys, defs) ==
    IF keys = << >> THEN [threw |-> FALSE, props |-> props]
    ELSE LET k == Head(keys)
             def == Defaulted(defs[k])
         IN
         IF k \notin DOMAIN props
         THEN DefineEach(SetKey(props, k, Created(def)), Tail(keys), defs)
         ELSE IF Refused(props[k], def)
         THEN [threw |-> TRUE, props |-> props]
         ELSE DefineEach(SetKey(props, k, Redefined(props[k], def)),
                         Tail(keys), defs)

\* the keys of the definitions objects, in the order `for in` visits them
KeyOrder == <<"prop1", "prop2", "prop3">>

\* define(tgt, defs), lines 330-359; defs is the map from keys to definitions
\* when the second argument is an object
define(tgt, arg, defs) ==
    LET keys == SelectSeq(KeyOrder, LAMBDA k : k \in DOMAIN defs)
        done == DefineEach(properties.proto[tgt.v], keys, defs)
        at == IF TypeOf(tgt) # "function" THEN "332"
              ELSE IF ~Truthy(arg) \/ TypeOf(arg) # "object" THEN "335"
              \* Object.getOwnPropertyNames(null) throws
              ELSE IF \E k \in DOMAIN defs : defs[k].ty = "null" THEN "341"
              \* tgt.prototype is undefined, or a description is refused
              ELSE IF ProtoProperty(tgt.v) = Undefined THEN "358"
              ELSE IF \E k \in DOMAIN defs : BadDescription(defs[k]) THEN "358"
              ELSE IF done.threw THEN "358"
              ELSE ""
        defines == at = "" \/ (at = "358" /\ ProtoProperty(tgt.v) # Undefined
                                /\ \A k \in DOMAIN defs : ~BadDescription(defs[k]))
    IN
    /\ ops < MaxOps
    /\ ops' = ops + 1
    /\ UNCHANGED <<memos, maps, datas, layers, facades, supers, fields, written,
                   defined, objects>>
    /\ properties' = IF defines
                     THEN [properties EXCEPT !.proto[tgt.v] = done.props]
                     ELSE properties
    /\ result' = IF at = ""
                 THEN Returned("define", <<tgt, arg>>, TRUE, "undefined", "")
                 ELSE Returned("define", <<tgt, arg>>, FALSE, Null, at)

----------------------------------------------------------------------------
Init ==
    /\ memos = [c \in Identities |-> 0]
    /\ maps = << >>
    /\ datas = << >>
    /\ layers = << >>
    /\ facades = << >>
    /\ supers = << >>
    /\ fields = [o \in Owners |-> InitField]
    /\ ops = 0
    /\ result = Outcome("init", << >>, TRUE, 0, "")
    /\ written = EmptyMap
    /\ defined = {}
    /\ objects = EmptyMap
    /\ properties = [proto |-> [c \in Identities |-> EmptyMap],
                     own |-> [o \in Owners |-> EmptyMap]]

Keys == {"k"}
WriteValues == {Num(2)}

\* an instance registers a layer: share(this, Klass, {...})
ShareInstance ==
    \E c \in Sharers, m \in {"none", "k1", "k3", "accA", "accB"} :
        share(Obj("o1"), Fun(c), Obj(m))

\* a class registers its static layer: share(this, {...})
ShareStatic ==
    \E c \in Sharers, m \in {"none", "k1"} :
        share(Fun(c), Obj(m), Undef)

\* code holding a facade assigns to a member
Write ==
    \E f \in 1..Len(facades), k \in Keys, v \in WriteValues : Assign(f, k, v)

Next == ShareInstance \/ ShareStatic \/ Write

Spec == Init /\ [][Next]_vars

----------------------------------------------------------------------------
(* The super-call chain of test.mjs: every class on the path Base, *)
(* NonParticipant, GrandChild, SuperTest that shares declares f    *)
ChainClasses == {"Base", "GrandChild", "SuperTest"}

\* an instance registers f under a class of the path
ChainInstance ==
    \E c \in ChainClasses, m \in {"one", "plus"} :
        share(Obj("o1"), Fun(c), Obj(m))

\* a class of the path registers f statically
ChainStatic ==
    \E c \in ChainClasses, m \in {"one", "plus"} :
        share(Fun(c), Obj(m), Undef)

NextChain == ChainInstance \/ ChainStatic

SpecChain == Init /\ [][NextChain]_vars

----------------------------------------------------------------------------
(* Two instances of the same classes *)
IsoShare ==
    \E o \in Instances, c \in {"Base", "Derived"}, m \in {"k1", "accA", "ro"} :
        share(Obj(o), Fun(c), Obj(m))

IsoWrite ==
    \E f \in 1..Len(facades), k \in Keys, v \in WriteValues : Assign(f, k, v)

NextIso == IsoShare \/ IsoWrite

SpecIso == Init /\ [][NextIso]_vars

----------------------------------------------------------------------------
(* Members with string and symbol keys, data and accessor members *)
KeyNames == {"k", SymbolKey}

KeysShare ==
    \E c \in {"Base", "Derived"}, m \in {"none", "k1", "sym", "accA", "ro", "wo"} :
        share(Obj("o1"), Fun(c), Obj(m))

KeysWrite ==
    \E f \in 1..Len(facades), k \in KeyNames, v \in WriteValues : Assign(f, k, v)

NextKeys == KeysShare \/ KeysWrite

SpecKeys == Init /\ [][NextKeys]_vars

----------------------------------------------------------------------------
(* Calls of accessor *)

\* the values of a key: a closure over a private field, undefined, or a
\* value that is not a function
DescValues == {"A", "B", "undef", "bad"}

\* the objects passed to accessor: any of get, set and foo present or absent
DescObjects ==
    [get : DescValues \cup {Absent}, set : DescValues \cup {Absent},
     foo : {"bad", Absent}]

\* the values passed to accessor that are not such objects
DescOthers == {Fun("Base"), NullArg, Undef, NumArg, StrArg}

\* accessor(d) is called
AccessorApply(d) ==
    LET r == accessor(d) IN
    /\ ops < MaxOps
    /\ ops' = ops + 1
    /\ result' = Returned("accessor", <<d>>, ~r.threw, r.ret,
                          IF r.threw THEN "208" ELSE "")
    /\ UNCHANGED <<memos, maps, datas, layers, facades, supers, fields,
                   written, defined, objects, properties>>

AccessorCall ==
    \/ \E o \in DescObjects : AccessorApply(Obj(o))
    \/ \E d \in DescOthers : AccessorApply(d)

NextAccessor == AccessorCall

SpecAccessor == Init /\ [][NextAccessor]_vars

----------------------------------------------------------------------------
(* Registrations in any order: two instances, a class and its subclass *)
OrderShare ==
    \E o \in Instances, c \in {"Base", "Derived"}, m \in {"none", "k1", "accA"} :
        share(Obj(o), Fun(c), Obj(m))

NextOrder == OrderShare

SpecOrder == Init /\ [][NextOrder]_vars

----------------------------------------------------------------------------
(* Methods and accessors of two instances and of the classes themselves *)
BindInstance ==
    \E o \in Instances, c \in {"Base", "Derived"},
       m \in {"one", "plus", "accA", "arrow"} :
        share(Obj(o), Fun(c), Obj(m))

BindStatic ==
    \E c \in {"Base", "Derived"}, m \in {"one", "plus", "arrow"} :
        share(Fun(c), Obj(m), Undef)

BindCall ==
    \E f \in 1..Len(facades), via \in {"facade", "uper"} : Invoke(f, "f", via)

BindRead ==
    \E f \in 1..Len(facades), via \in {"facade", "uper"} : Read(f, "f", via)

NextBind == BindInstance \/ BindStatic \/ BindCall \/ BindRead

SpecBind == Init /\ [][NextBind]_vars

----------------------------------------------------------------------------
(* Static sharing in a hierarchy that branches: Derived and Sibling extend Base *)
BranchStatic ==
    \E c \in {"Base", "Derived", "Sibling"}, m \in {"k1", "k3", "accB"} :
        share(Fun(c), Obj(m), Undef)

NextBranch == BranchStatic

SpecBranch == Init /\ [][NextBranch]_vars

----------------------------------------------------------------------------
(* Calls that raise *)
RawInst == {Fun("Derived"), Obj("o1"), NullArg, Undef, NumArg}
RawKlass == {Fun("Base"), Fun("Derived"), Obj("k1"), NullArg, Undef, NumArg}
RawMembers == {Fun("Base"), Obj("k1"), NullArg, Undef, NumArg}

\* share called with any values; a class used as owner registers under itself
ErrShareRaw ==
    \E a \in RawInst, b \in RawKlass, c \in RawMembers :
        /\ (a.ty = "function" /\ b.ty = "function") => a.v = b.v
        /\ share(a, b, c)

\* share called with members it cannot build a layer or a facade from
ErrShareFaulty ==
    \E c \in {"Base", "Derived"}, m \in {"badGet", "uper"} :
        share(Obj("o1"), Fun(c), Obj(m))

NextErr == ErrShareRaw \/ ErrShareFaulty

SpecErr == Init /\ [][NextErr]_vars

----------------------------------------------------------------------------
(* The abstract wrapper of test.mjs:154-183: AWrap = abstract(Base),        *)
(* class ADerived extends AWrap.  A class registers its static members in   *)
(* its class body, hence before it is handed to abstract; instances         *)
(* register in their constructors, under the classes of their chain.        *)

\* the members a class body or a constructor of these runs shares
BodyMembers == {"none", "k1"}

\* the constructors of these classes: a field initializer sharing members,
\* and no call of saveSelf (test.mjs:160, 166, 191, 198)
Sharing == [members : BodyMembers, save : {Absent}]

\* the class body of Base runs its static initializer, before Base is wrapped
AbsStatic ==
    \E m \in BodyMembers :
        /\ "AWrap" \notin defined
        /\ share(Fun("Base"), Obj(m), Undef)

AbsWrap == \E a \in {Fun("Base"), StrArg, NumArg} : abstract(a)

\* class ADerived extends AWrap { static #sshared = share(this, {...}) }
AbsExtend == \E body \in BodyMembers : Extend("ADerived", "AWrap", body)

\* new Base, new AWrap, new ADerived, Reflect.construct(AWrap, [], ADerived),
\* Reflect.construct(ADerived, [], AWrap)
AbsConstructions ==
    {<<"AWrap", "AWrap">>, <<"AWrap", "ADerived">>, <<"Base", "Base">>,
     <<"ADerived", "AWrap">>, <<"ADerived", "ADerived">>}

AbsNew ==
    \E o \in Instances, c \in AbsConstructions :
        \E m \in [CtorClasses(Target(c[1])) -> Sharing] :
            c[2] \in Classes \cup defined /\ New(c[1], c[2], o, m)

NextAbstract == AbsStatic \/ AbsWrap \/ AbsExtend \/ AbsNew

SpecAbstract == Init /\ [][NextAbstract]_vars

----------------------------------------------------------------------------
(* The final wrapper of test.mjs:185-215 and 426-453: FWrap = final(Derived) *)

\* the class bodies of Base and of Derived run their static initializers,
\* Base's first, before Derived is wrapped
FinStatic ==
    \E c \in {"Base", "Derived"}, m \in BodyMembers :
        /\ "FWrap" \notin defined
        /\ c = "Base" => memos["Derived"] = 0
        /\ share(Fun(c), Obj(m), Undef)

FinWrap == final(Fun("Derived"))

\* class FDerived extends FWrap {}
FinExtend == Extend("FDerived", "FWrap", NoShare)

\* FWrap.prototype = {}
FinAssign == AssignPrototype("FWrap")

\* new FWrap, new Derived, Reflect.construct(FWrap, [], Derived), and
\* Reflect.construct(FWrap, [], FCheat) for a function FCheat whose prototype
\* was set to FWrap with Object.setPrototypeOf (test.mjs:441-448)
FinConstructions ==
    {<<"FWrap", "FWrap">>, <<"FWrap", "Derived">>, <<"FWrap", "FCheat">>,
     <<"Derived", "Derived">>}

\* the objects are constructed in the order o1, o2
FinNew ==
    \E o \in Instances, c \in FinConstructions :
        \E m \in [CtorClasses(Target(c[1])) -> Sharing] :
            (o = "o2" => "o1" \in DOMAIN objects) /\ New(c[1], c[2], o, m)

\* saveSelf(this, "pvt") in a static block or a constructor (test.mjs:196),
\* and under the name of a property the object inherits
SaveNames == {"pvt", "constructor"}

FinSave ==
    \/ \E o \in DOMAIN objects, n \in SaveNames : saveSelf(Obj(o), n)
    \/ saveSelf(Fun("Derived"), "pvt")

NextFinal == FinStatic \/ FinWrap \/ FinExtend \/ FinAssign \/ FinNew \/ FinSave

SpecFinal == Init /\ [][NextFinal]_vars

----------------------------------------------------------------------------
(* Public properties: saveSelf and define (test.mjs:355-377, 455-505) *)

\* the definitions passed to define, by what they contain
Def(ty, value, get, writable, enumerable, configurable) ==
    [value |-> value, get |-> get, ty |-> ty, writable |-> writable,
     enumerable |-> enumerable, configurable |-> configurable]

\* the definitions objects: the three of test.mjs:458-469 one by one and
\* together, a description without value, one with get and value, null and
\* a number in the place of a description, another getter and another value
DefObjects ==
    [ plain  |-> ("prop1" :> Def("object", "10", Absent, Absent, Absent, Absent)),
      getter |-> ("prop2" :> Def("object", Absent, "g20", Absent, "false", Absent)),
      fixed  |-> ("prop3" :> Def("object", "fn30", Absent, "false", Absent, Absent)),
      all    |-> ("prop1" :> Def("object", "10", Absent, Absent, Absent, Absent)
                  @@ "prop2" :> Def("object", Absent, "g20", Absent, "false", Absent)
                  @@ "prop3" :> Def("object", "fn30", Absent, "false", Absent, Absent)),
      bare   |-> ("prop1" :> Def("object", Absent, Absent, Absent, "true", Absent)),
      both   |-> ("prop1" :> Def("object", "10", "g20", Absent, Absent, Absent)),
      nodef  |-> ("prop1" :> Def("null", Absent, Absent, Absent, Absent, Absent)),
      number |-> ("prop1" :> Def("number", Absent, Absent, Absent, Absent, Absent)),
      again  |-> ("prop1" :> Def("object", "11", Absent, Absent, Absent, Absent)
                  @@ "prop2" :> Def("object", Absent, "g21", Absent, Absent, Absent)
                  @@ "prop3" :> Def("object", "fn31", Absent, Absent, Absent, Absent)),
      empty  |-> EmptyMap ]

\* define(MyClass, {...}), define(null, {}), define(MyClass, null), and define
\* on a final wrapper
DefineCall ==
    \/ \E t \in {Fun("Base"), Fun("FWrap"), NullArg},
          d \in DOMAIN DefObjects :
             /\ t.ty = "function" => t.v \in Classes \cup defined
             /\ define(t, Obj(d), DefObjects[d])
    \/ \E t \in {Fun("Base")}, d \in {NullArg, NumArg} : define(t, d, EmptyMap)

SaveCall ==
    \/ \E o \in DOMAIN objects, n \in SaveNames : saveSelf(Obj(o), n)
    \/ \E c \in {"Base", "Derived", "FWrap"}, n \in SaveNames :
          c \in Classes \cup defined /\ saveSelf(Fun(c), n)
    \/ \E n \in SaveNames : saveSelf(NullArg, n)

\* const F = final(class F {...})
PublicWrap == final(Fun("Derived"))

\* the constructors of these classes: with or without a field initializer
\* that shares, with or without saveSelf(this, name) in the body
\* (test.mjs:9-25, 357-362, 367-372, 427, 456)
PublicBodies == [members : {NoShare, "k1"}, save : {Absent, "pvt"}]

\* new Test(), new MyClass(), new F(), new Base
PublicNew ==
    \E f \in {"Base", "FWrap"} :
        \E m \in [CtorClasses(Target(f)) -> PublicBodies] : New(f, f, "o1", m)

NextPublic == DefineCall \/ SaveCall \/ PublicWrap \/ PublicNew

SpecPublic == Init /\ [][NextPublic]_vars

----------------------------------------------------------------------------
(* Vocabulary of the properties *)

\* the share call of this step returned facade f
Registered(f) == result.op = "share" /\ result.ok /\ result.fac = f

\* what the member k declared by the layer of facade f yields when read: its
\* value, or the result of its getter
Declared(h, f, k) == DescGet(h, h.l[h.f[f].layer].props[k])

\* a layer registered earlier for the same owner under an ancestor class declared k
BaseDeclared(f, k) ==
    \E g \in 1..(f - 1) :
        /\ facades[g].owner = facades[f].owner
        /\ IsAncestor(facades[g].klass, facades[f].klass)
        /\ k \in facades[g].keys

\* C1: once a derived layer has registered k after a base layer registered k for
\* the same owner, the derived facade reads the derived layer's definition of k,
\* whatever was read or written through the owner's facades in between.
C1_DerivedShadowsBase ==
    \A f \in 1..Len(facades) :
        Registered(f) =>
            \A k \in facades[f].keys :
                BaseDeclared(f, k) => FacadeGet(Heap, f, k) = Declared(Heap, f, k)

\* this step is the share call that returned facade f
ShareStep(f) == Len(facades') = Len(facades) + 1 /\ f = Len(facades')

\* the nearest class, from a upwards, that holds a record for owner o (Null: none)
RECURSIVE OwnerClassFrom(_, _)
OwnerClassFrom(a, o) ==
    IF a = Null THEN Null
    ELSE IF memos[a] # 0 /\ o \in DOMAIN maps[memos[a]] THEN a
    ELSE OwnerClassFrom(Parent[a], o)

\* no class strictly between a and c has a registry entry
NoneBetween(a, c) == \A m \in StrictlyBetween(a, c) : memos[m] = 0

\* facade a declares or inherits the member k
Exposes(h, a, k) ==
    LET g == FacadeFind(h, a, k) IN g # 0 /\ k \in h.f[g].keys

\* key k of facade f resolves to a plain property, or to an accessor whose
\* getter returns what its setter stored
RoundTrips(h, f, k) ==
    LET desc == DataLookup(h, h.f[f].data, k) IN
    \/ desc.kind = "data"
    \/ desc.kind = "acc" /\ desc.get = desc.set

\* C2: when a derived layer redeclares k, $uper.k of the new facade yields what
\* the facade of the owner's immediate ancestor layer returned for k just
\* before the registration (a value written through a facade included).
C2_SuperIsAncestorValue ==
    [][\A f \in 1..Len(facades') :
          ShareStep(f) =>
            LET c == facades'[f].klass
                o == facades'[f].owner
                a == OwnerClassFrom(Parent[c], o)
            IN
            (a # Null /\ NoneBetween(a, c)) =>
                \A k \in facades'[f].keys :
                    Exposes(Heap, maps[memos[a]][o].inheritance, k) =>
                        SuperGet(Heap', facades'[f].super, k)
                            = FacadeGet(Heap, maps[memos[a]][o].inheritance, k)]_vars

\* the layers of owner o were registered base to derived, one per class
BaseToDerived(o) ==
    \A x, y \in 1..Len(facades) :
        (x < y /\ facades[x].owner = o /\ facades[y].owner = o) =>
            /\ facades[x].klass # facades[y].klass
            /\ ~IsAncestor(facades[y].klass, facades[x].klass)

\* C4: when the layers of an owner are registered base to derived, a key
\* declared by an ancestor layer and not redeclared by a derived layer reads, on
\* the derived facade, the value the ancestor facade reads.
C4_InheritedReadable ==
    \A g, f \in 1..Len(facades) :
        (/\ g < f
         /\ facades[g].owner = facades[f].owner
         /\ IsAncestor(facades[g].klass, facades[f].klass)
         /\ BaseToDerived(facades[f].owner))
        => \A k \in facades[g].keys \ facades[f].keys :
               FacadeGet(Heap, f, k) = FacadeGet(Heap, g, k)

\* C8: while the layer of facade f is the newest layer of its data object, a
\* member k it declared as an accessor-tagged pair is what every read and write
\* of k through f resolves to (the getter and setter are invoked, no stored
\* value stands in for them).
C8_AccessorInvoked ==
    \A f \in 1..Len(facades) :
        datas[facades[f].data].proto = facades[f].layer =>
            \A k \in facades[f].keys :
                layers[facades[f].layer].props[k].kind = "acc" =>
                    DataLookup(Heap, facades[f].data, k)
                        = layers[facades[f].layer].props[k]

----------------------------------------------------------------------------
(* C3: the super-call chain *)

\* facade g belongs to a static registration (the class is its own owner)
Static(g) == facades[g].owner = facades[g].klass

\* the facades of the owner of f: of the same instance, or static like f
Kin(f) ==
    {g \in 1..Len(facades) :
        IF Static(f) THEN Static(g) ELSE facades[g].owner = facades[f].owner}

\* the layers below and including f: those of its owner under the class of f
\* and its ancestors
Lineage(f) ==
    {g \in Kin(f) : \/ facades[g].klass = facades[f].klass
                    \/ IsAncestor(facades[g].klass, facades[f].klass)}

LineageClasses(f) == {facades[g].klass : g \in Lineage(f)}

\* the body of the member f the layer of facade g declared
BodyOf(g) == layers[facades[g].layer].props["f"].value.body

\* f is the most derived facade of a chain registered base to derived, one
\* layer per class: the first layer declares f as "one", the others as
\* "plusSuper", and the classes between the chain's classes never called share
ChainOk(f) ==
    /\ "f" \in facades[f].keys
    /\ Kin(f) = Lineage(f)
    /\ \A g \in Lineage(f) : g <= f /\ "f" \in facades[g].keys
    /\ \A g1, g2 \in Lineage(f) :
          g1 < g2 => IsAncestor(facades[g1].klass, facades[g2].klass)
    /\ \A g \in Lineage(f) :
          BodyOf(g) = IF \A g2 \in Lineage(f) : g <= g2 THEN "one" ELSE "plusSuper"
    /\ \A m \in Classes \ LineageClasses(f) :
          (/\ IsAncestor(m, facades[f].klass)
           /\ \E a \in LineageClasses(f) : IsAncestor(a, m)) => memos[m] = 0

\* C3: calling f on the most derived facade of a chain of n layers returns n,
\* for instance owners and for static registrations, with classes that never
\* share between the chain's classes.
C3_ChainReturnsDepth ==
    \A f \in 1..Len(facades) :
        ChainOk(f) =>
            CallFn(Heap, FacadeGet(Heap, f, "f")) = Num(Cardinality(Lineage(f)))

\* a chain of three layers over the non-participating class answered 3
C3_Witness ==
    \E f \in 1..Len(facades) :
        /\ ChainOk(f)
        /\ Cardinality(Lineage(f)) = 3
        /\ facades[f].klass = "SuperTest"
        /\ CallFn(Heap, FacadeGet(Heap, f, "f")) = Num(3)

----------------------------------------------------------------------------
(* C5: isolation of owners *)

\* C5: an assignment through a facade of one owner leaves every value read
\* through the facades of every other owner unchanged.
C5_OwnersIsolated ==
    [][\A f \in 1..Len(facades) :
          (result'.op = "set" /\ result'.fac = f) =>
              \A g \in 1..Len(facades) :
                  facades[g].owner # facades[f].owner =>
                      \A k \in Keys :
                          FacadeGet(Heap', g, k) = FacadeGet(Heap, g, k)]_vars

\* two owners registered k under the same class, one of them assigned 2 to it
\* and the other still reads its own value
C5_Witness ==
    /\ result.op = "set"
    /\ result.ok
    /\ \E g \in 1..Len(facades) :
          /\ facades[g].owner # facades[result.fac].owner
          /\ facades[g].klass = facades[result.fac].klass
          /\ "k" \in facades[g].keys
          /\ "k" \in facades[result.fac].keys
          /\ FacadeGet(Heap, result.fac, "k") = Num(2)
          /\ FacadeGet(Heap, g, "k") # Num(2)

----------------------------------------------------------------------------
(* C6, C7: calls that raise *)

\* the call has the form share(klass, members)
StaticForm(args) ==
    args[1].ty = "function" /\ args[2].ty = "object" /\ args[3].ty = "undefined"

\* the owner is not a non-null object or function, the class identity is not
\* a function, or members is not a non-null object
InvalidCall(args) ==
    /\ ~StaticForm(args)
    /\ \/ args[1].ty \notin {"object", "function"}
       \/ args[2].ty # "function"
       \/ args[3].ty # "object"

\* the registry and everything the stored records refer to is as it was
RegistryUnchanged ==
    /\ memos' = memos
    /\ maps' = maps
    /\ datas' = datas
    /\ layers' = layers
    /\ facades' = facades
    /\ supers' = supers

\* C6: share called with an invalid owner, class identity or members raises a
\* TypeError from the argument validation and leaves the registry unchanged.
C6_InvalidArgsRaise ==
    [][(result'.op = "share" /\ InvalidCall(result'.args)) =>
          (~result'.ok /\ result'.at = "82" /\ RegistryUnchanged)]_vars

\* an invalid call was rejected while the registry held a record
C6_Witness ==
    /\ result.op = "share"
    /\ InvalidCall(result.args)
    /\ ~result.ok
    /\ Len(facades) > 0

\* C7: whenever share raises, during validation or later, no registry entry
\* has been added and no record, data, facade or $uper object has changed.
C7_ErrorLeavesNoTrace ==
    [][(result'.op = "share" /\ ~result'.ok) => RegistryUnchanged]_vars

----------------------------------------------------------------------------
(* C9: classes that never call share *)

\* what a registration of d for owner o finds when it extends a directly: the
\* record of the owner at a (for a static registration, the record a holds
\* for itself)
LineageKey(o, d, a) == IF o = d THEN a ELSE o

\* C9: when every class between a registered ancestor a and the registering
\* class d never called share, the facade d obtains is built on a's record for
\* the owner exactly as for a direct subclass of a: it inherits a's facade,
\* its new layer sits on top of a's data chain (so d's declarations shadow
\* a's), and its $uper holds the definitions found in a's chain and delegates
\* to a's $uper.
C9_NonParticipantTransparent ==
    [][\A f \in 1..Len(facades') :
          ShareStep(f) =>
            LET d == facades'[f].klass
                o == facades'[f].owner
                s == facades'[f].super
            IN
            \A a \in Classes :
                (/\ IsAncestor(a, d)
                 /\ memos[a] # 0
                 /\ StrictlyBetween(a, d) # {}
                 /\ NoneBetween(a, d))
                =>
                IF LineageKey(o, d, a) \in DOMAIN maps[memos[a]]
                THEN LET rec == maps[memos[a]][LineageKey(o, d, a)]
                         top == datas[rec.data].proto
                     IN
                     /\ facades'[f].proto = rec.inheritance
                     /\ facades'[f].data = rec.data
                     /\ datas'[rec.data].proto = facades'[f].layer
                     /\ layers'[facades'[f].layer].proto = top
                     /\ supers'[s].proto = rec.super
                     /\ \A k \in Keys \ facades'[f].keys :
                           FacadeGet(Heap', f, k)
                               = FacadeGet(Heap, rec.inheritance, k)
                     /\ \A k \in facades'[f].keys :
                           IF LayerLookup(Heap, top, k).kind = "none"
                           THEN k \notin DOMAIN supers'[s].props
                           ELSE /\ k \in DOMAIN supers'[s].props
                                /\ supers'[s].props[k] = LayerLookup(Heap, top, k)
                ELSE /\ facades'[f].proto = 0
                     /\ facades'[f].data = Len(datas) + 1]_vars

\* GrandChild registered k over Base's k with NonParticipant between: its
\* facade inherits Base's facade, reads its own k and $uper.k is Base's
C9_Witness ==
    \E f \in 1..Len(facades) :
        /\ Registered(f)
        /\ facades[f].klass = "GrandChild"
        /\ facades[f].proto # 0
        /\ facades[facades[f].proto].klass = "Base"
        /\ "k" \in facades[f].keys
        /\ FacadeGet(Heap, f, "k") = Num(3)
        /\ SuperGet(Heap, facades[f].super, "k") = Num(1)

----------------------------------------------------------------------------
(* C10: a written value seen through the facades of the owner *)

\* the classes c and d are on one path of the hierarchy
OnePath(c, d) == c = d \/ IsAncestor(c, d) \/ IsAncestor(d, c)

\* key k of facade f is a member property (declared by the facade or
\* inherited from the facade of an ancestor layer) that reads back what is
\* assigned to it
MemberReadBack(f, k) ==
    /\ Exposes(Heap, f, k)
    /\ RoundTrips(Heap, FacadeFind(Heap, f, k), k)

\* the value last assigned to k for owner x[1] was assigned through a facade
\* that has k as a member, and f is a facade of the same owner, of a layer on
\* the same path of the hierarchy, that has k as a member too
WrittenFor(x, f) ==
    /\ facades[f].owner = x[1]
    /\ OnePath(facades[f].klass, facades[written[x].by].klass)
    /\ MemberReadBack(written[x].by, x[2])
    /\ MemberReadBack(f, x[2])

\* every registered ancestor of a class registered for o holds a record for o
NoneHidden(o) ==
    \A f \in 1..Len(facades), a \in Identities :
        (facades[f].owner = o /\ IsAncestor(a, facades[f].klass) /\ memos[a] # 0)
            => o \in DOMAIN maps[memos[a]]

\* C10: the value last assigned to a member k through a facade of owner o is
\* what every facade of o that has k as a member reads for k (the facades of
\* base and derived layers of one path of the hierarchy alike), no later
\* registration redeclaring k.  The facades are those that declare or inherit
\* k, and k reads back what is assigned to it: a facade without the member
\* has nothing to read.
C10_WrittenReadEverywhere ==
    \A x \in DOMAIN written :
        \A f \in 1..Len(facades) :
            WrittenFor(x, f) => FacadeGet(Heap, f, x[2]) = written[x].v

\* the same, for the owners whose layers were registered once per class and
\* base to derived, no registered ancestor lacking a record for the owner:
\* the registrations on which the defects of re-registration, of registration
\* order and of the hidden ancestor do not act
WrittenReadInOrder ==
    \A x \in DOMAIN written :
        (BaseToDerived(x[1]) /\ NoneHidden(x[1])) =>
            \A f \in 1..Len(facades) :
                WrittenFor(x, f) => FacadeGet(Heap, f, x[2]) = written[x].v

\* Derived registered k for o1 before Base did: 2 assigned to k through
\* Derived's facade is read there, and Base's facade still reads 1
OutOfOrderWrite ==
    /\ result.op = "set"
    /\ result.ok
    /\ Len(facades) = 2
    /\ facades[1].klass = "Derived"
    /\ facades[2].klass = "Base"
    /\ result.fac = 1
    /\ <<"o1", "k">> \in DOMAIN written
    /\ WrittenFor(<<"o1", "k">>, 2)
    /\ FacadeGet(Heap, 1, "k") = Num(2)
    /\ FacadeGet(Heap, 2, "k") = Num(1)

\* Base then Derived registered k for o1: 2 assigned to k through one facade
\* is read through both
InOrderWrite ==
    /\ result.op = "set"
    /\ result.ok
    /\ Len(facades) = 2
    /\ facades[1].klass = "Base"
    /\ facades[2].klass = "Derived"
    /\ <<"o1", "k">> \in DOMAIN written
    /\ WrittenFor(<<"o1", "k">>, 1)
    /\ WrittenFor(<<"o1", "k">>, 2)
    /\ FacadeGet(Heap, 1, "k") = Num(2)
    /\ FacadeGet(Heap, 2, "k") = Num(2)

----------------------------------------------------------------------------
(* C11: the base class reads the derived definition *)

\* every class between a and c either never called share or holds a record
\* for owner o
RecordedBetween(a, c, o) ==
    \A m \in StrictlyBetween(a, c) :
        memos[m] = 0 \/ o \in DOMAIN maps[memos[m]]

\* facade f is the last facade of its owner that declares k
LastDeclaring(f, k) ==
    /\ k \in facades[f].keys
    /\ \A h \in (f + 1)..Len(facades) :
          facades[h].owner = facades[f].owner => k \notin facades[h].keys

\* C11: after a derived layer redeclared k for owner o (layers registered base
\* to derived) and while nothing has been assigned to k since, reading k
\* through the base layer's facade for o yields the definition of the most
\* derived layer that declares k.
C11_BaseReadsDerived ==
    \A g, f \in 1..Len(facades) :
        (/\ g < f
         /\ facades[g].owner = facades[f].owner
         /\ IsAncestor(facades[g].klass, facades[f].klass)
         /\ BaseToDerived(facades[f].owner)
         /\ RecordedBetween(facades[g].klass, facades[f].klass, facades[f].owner))
        => \A k \in facades[g].keys :
               (/\ LastDeclaring(f, k)
                /\ <<facades[f].owner, k>> \notin DOMAIN written)
               => FacadeGet(Heap, g, k) = Declared(Heap, f, k)

----------------------------------------------------------------------------
(* C12: abstract(Base) *)

\* the facade f exposes every member of facade g, reading what g reads for
\* those it does not declare itself
ExposesAll(f, g) ==
    \A k \in facades[g].keys :
        /\ Exposes(Heap, f, k)
        /\ k \notin facades[f].keys => FacadeGet(Heap, f, k) = FacadeGet(Heap, g, k)

\* facade g is the only facade registered for owner o under class c
OnlyFacade(g, o, c) ==
    \A h \in 1..Len(facades) :
        (facades[h].owner = o /\ facades[h].klass = c) <=> h = g

\* the facades ADerived obtains, for an instance constructed through it and
\* statically, expose the members Base shared for that instance and statically
AbstractExposure ==
    \A g, f \in 1..Len(facades) :
        /\ (/\ facades[g].owner \in DOMAIN objects
            /\ objects[facades[g].owner].protoOf = "ADerived"
            /\ OnlyFacade(g, facades[g].owner, "Base")
            /\ OnlyFacade(f, facades[g].owner, "ADerived")
            /\ g < f) => ExposesAll(f, g)
        /\ (/\ OnlyFacade(g, "Base", "Base")
            /\ OnlyFacade(f, "ADerived", "ADerived")) => ExposesAll(f, g)

\* C12: constructing AWrap = abstract(Base) itself (new.target is AWrap)
\* raises a TypeError, creates no object and runs no constructor of Base;
\* constructing its subclass ADerived succeeds with an instance of Base; the
\* instance and static facades of ADerived expose the members Base shared.
C12_AbstractGuards ==
    [][/\ (result'.op = "new" /\ result'.args[2] = "AWrap") =>
              /\ ~result'.ok
              /\ result'.at = "TypeError"
              /\ objects' = objects
              /\ RegistryUnchanged
       /\ (result'.op = "new" /\ result'.args[2] = "ADerived") =>
              /\ result'.ok
              /\ result'.ret \in DOMAIN objects' \ DOMAIN objects
              /\ InstanceOf(objects'[result'.ret], "Base")
       /\ AbstractExposure']_vars

\* an instance constructed through ADerived registered under Base and then
\* under ADerived, Base's registry entry being shared with AWrap: the facade
\* of ADerived reads Base's k
C12_Witness ==
    \E g, f \in 1..Len(facades) :
        /\ memos["AWrap"] # 0
        /\ facades[g].owner \in DOMAIN objects
        /\ objects[facades[g].owner].protoOf = "ADerived"
        /\ facades[f].owner = facades[g].owner
        /\ facades[g].klass = "Base"
        /\ facades[f].klass = "ADerived"
        /\ g < f
        /\ "k" \in facades[g].keys \ facades[f].keys
        /\ FacadeGet(Heap, f, "k") = Num(1)

----------------------------------------------------------------------------
(* C13: final(Derived) *)

\* C13: constructing FWrap = final(Derived) with new.target FWrap succeeds and
\* returns an instance of Derived whose constructor is FWrap; with any other
\* new.target it raises a TypeError and creates no object; FWrap.prototype
\* reads undefined, so a class declaration extending FWrap raises and defines
\* nothing; all of this also after attempts to assign FWrap.prototype.
C13_FinalGuards ==
    [][/\ (result'.op = "new" /\ result'.args = <<"FWrap", "FWrap">>) =>
              /\ result'.ok
              /\ result'.ret \in DOMAIN objects' \ DOMAIN objects
              /\ InstanceOf(objects'[result'.ret], "Derived")
              /\ objects'[result'.ret].constructor = "FWrap"
       /\ (/\ result'.op = "new"
           /\ result'.args[1] = "FWrap"
           /\ result'.args[2] # "FWrap") =>
              /\ ~result'.ok
              /\ result'.at = "TypeError"
              /\ objects' = objects
       /\ "FWrap" \in defined' => ProtoProperty("FWrap") = Undefined
       /\ (result'.op = "extends" /\ result'.args[2] = "FWrap") =>
              /\ ~result'.ok
              /\ defined' = defined]_vars

\* after an instance was constructed through FWrap, a construction with the
\* new.target of a function whose prototype was set to FWrap was refused
C13_Witness ==
    /\ result.op = "new"
    /\ result.args = <<"FWrap", "FCheat">>
    /\ ~result.ok
    /\ \E o \in DOMAIN objects :
          objects[o].constructor = "FWrap" /\ InstanceOf(objects[o], "Derived")

----------------------------------------------------------------------------
(* C14: a wrapper and its class share one registry entry *)

\* memos.get(c)?.get(o): the record found for owner o under identity c
RecordAt(c, o) ==
    IF memos[c] # 0 /\ o \in DOMAIN maps[memos[c]]
    THEN maps[memos[c]][o]
    ELSE Null

\* C14: once a wrapper of a class exists, the wrapper and the class have the
\* same registry entry, and the record found for an owner under the class is
\* the record found for it under the wrapper, whenever it was registered.
C14_WrapperSharesEntry ==
    \A w \in defined \cap Wrappers :
        /\ memos[w] = memos[WrapOf[w].of]
        /\ \A o \in Instances : RecordAt(w, o) = RecordAt(WrapOf[w].of, o)

----------------------------------------------------------------------------
(* C15: the share(klass, members) overload *)

\* C15: a call share(C, m) with a class C and a members object m takes exactly
\* the step share(C, C, m) takes from the same state: share(C, C, m) passes
\* the argument checks unshuffled, and the registry, the objects built and the
\* facade returned by share(C, m) are those the body of share produces for
\* inst = C, klass = C, members = m.
C15_OverloadSameAsExplicit ==
    [][\A c \in Identities, m \in DOMAIN MemberDefs :
          (result'.op = "share" /\ result'.args = <<Fun(c), Obj(m), Undef>>) =>
              /\ Overload(Fun(c), Fun(c), Obj(m)) = <<Fun(c), Fun(c), Obj(m)>>
              /\ Validate(Fun(c), Fun(c), Obj(m))
              /\ LET v == ShareValid(Registry, c, c, MemberDefs[m], result'.args)
                 IN Becomes(v.reg) /\ result' = v.result]_vars

\* Derived called share(Derived, {}) after Base shared k statically: the
\* facade returned reads Base's k
C15_Witness ==
    /\ result.op = "share"
    /\ result.ok
    /\ result.args = <<Fun("Derived"), Obj("none"), Undef>>
    /\ facades[result.fac].owner = "Derived"
    /\ facades[result.fac].klass = "Derived"
    /\ FacadeGet(Heap, result.fac, "k") = Num(1)

----------------------------------------------------------------------------
(* C16: the keys of the facade *)

\* the member properties facade f itself has
OwnMemberKeys(h, f) == h.f[f].keys \cup DOMAIN h.f[f].extra

\* share(o, C, m) returned: the facade's own member properties are the own
\* keys of m, and each is read through the facade's own getter without raising
FacadeHasMemberKeys ==
    \A m \in DOMAIN MemberDefs :
        (result'.op = "share" /\ result'.ok /\ result'.args[3] = Obj(m)) =>
            /\ OwnMemberKeys(Heap', result'.fac) = DOMAIN MemberDefs[m]
            /\ \A k \in DOMAIN MemberDefs[m] :
                  /\ FacadeFind(Heap', result'.fac, k) = result'.fac
                  /\ FacadeGet(Heap', result'.fac, k) # TypeErr

\* an assignment to a member property of the facade itself returned
WroteOwnKey ==
    /\ result'.op = "set"
    /\ result'.ok
    /\ result'.args[1] \in facades[result'.fac].keys

\* the statement as it stands: every assignment that returned is read back
C16_WrittenReadBack ==
    [][/\ FacadeHasMemberKeys
       /\ WroteOwnKey =>
             FacadeGet(Heap', result'.fac, result'.args[1]) = result'.args[2]]_vars

\* C16: the member properties the facade returned by share defines are exactly
\* the own keys of members, strings and symbols, each readable; after an
\* assignment to one that resolves to a plain property or to an accessor whose
\* getter returns what its setter stored, the next read returns the value
\* assigned.
C16_FacadeKeysAreMemberKeys ==
    [][/\ FacadeHasMemberKeys
       /\ (WroteOwnKey /\ RoundTrips(Heap', result'.fac, result'.args[1])) =>
             FacadeGet(Heap', result'.fac, result'.args[1]) = result'.args[2]]_vars

\* the symbol-keyed member of {k: 1, [symbolKey]: 7} was assigned 2 through
\* the facade and reads 2, the string-keyed one still reads 1
C16_Witness ==
    /\ result.op = "set"
    /\ result.ok
    /\ result.args = <<SymbolKey, Num(2)>>
    /\ facades[result.fac].keys = {"k", SymbolKey}
    /\ FacadeGet(Heap, result.fac, SymbolKey) = Num(2)
    /\ FacadeGet(Heap, result.fac, "k") = Num(1)

----------------------------------------------------------------------------
(* C17: accessor *)

\* the claim's case "d is an object containing get or set": null, which
\* contains nothing, is among the other inputs
ContainsGetOrSet(d) == d.ty = "object" /\ (In("get", d) \/ In("set", d))

\* C17: accessor(d) returns a tagged value carrying d's get and set when d is
\* an object that contains get or set, and returns undefined without raising
\* for every other d: an object with neither key, a number, a string, a
\* function, undefined and null.
C17_AccessorTagsOrUndefined ==
    result.op = "accessor" =>
        LET d == result.args[1] IN
        /\ result.ok
        /\ IF ContainsGetOrSet(d)
           THEN result.ret = Tagged(Prop(d, "get"), Prop(d, "set"))
           ELSE result.ret = Undefined

----------------------------------------------------------------------------
(* C18: a derived layer registered before its base *)

\* the facades share returned for owner o and class c, in the order returned
FacadesOf(o, c) ==
    {g \in 1..Len(facades) : facades[g].owner = o /\ facades[g].klass = c}

\* facade f of a subclass of b was returned before b registered for f's owner
BeforeBase(f, b) ==
    /\ IsAncestor(b, facades[f].klass)
    /\ \A g \in FacadesOf(facades[f].owner, b) : g > f

\* C18: when a derived layer registered for owner o before its base layer, a
\* key the derived layer does not declare reads undefined through the derived
\* facade while the base has no registration for o, and reads what the base's
\* facade reads once the base has registered it for o.
C18_BaseVisibleOnceRegistered ==
    \A f \in 1..Len(facades), b \in Classes, k \in Keys :
        (BeforeBase(f, b) /\ k \notin facades[f].keys) =>
            LET gs == FacadesOf(facades[f].owner, b) IN
            IF gs = {}
            THEN FacadeGet(Heap, f, k) = Undefined
            ELSE \A g \in gs :
                    k \in facades[g].keys =>
                        FacadeGet(Heap, f, k) = FacadeGet(Heap, g, k)

----------------------------------------------------------------------------
(* C19: one data object per owner *)

\* memos.get(c)?.has(o)
HasRecord(c, o) == memos[c] # 0 /\ o \in DOMAIN maps[memos[c]]

\* C19: the records of two distinct owners never hold the same data object,
\* whether the owners are instances or classes sharing statically, one of
\* which extends the other.
C19_DataExclusive ==
    \A c1 \in Identities, c2 \in Identities, o1 \in Owners, o2 \in Owners :
        (o1 # o2 /\ HasRecord(c1, o1) /\ HasRecord(c2, o2)) =>
            RecordAt(c1, o1).data # RecordAt(c2, o2).data

----------------------------------------------------------------------------
(* C20: registering twice for the same class and owner *)

\* C20: when share returns for a class and an owner that already had a record,
\* the record still holds the same data object and every member an earlier
\* registration of the pair declared, unless declared again, reads through the
\* new facade what it reads through the earlier one.
C20_ReregistrationExtends ==
    [][\A o \in Owners, c \in Identities :
          (/\ result'.op = "share"
           /\ result'.ok
           /\ facades'[result'.fac].owner = o
           /\ facades'[result'.fac].klass = c
           /\ HasRecord(c, o)) =>
              /\ maps'[memos'[c]][o].data = RecordAt(c, o).data
              /\ \A g \in FacadesOf(o, c) :
                    \A k \in facades[g].keys \ facades'[result'.fac].keys :
                        FacadeGet(Heap', result'.fac, k) = FacadeGet(Heap', g, k)]_vars

----------------------------------------------------------------------------
(* C21: accessor members and the data chain *)

\* the layers on the delegation chain of data object d
RECURSIVE LayersFrom(_)
LayersFrom(l) == IF l = 0 THEN {} ELSE {l} \cup LayersFrom(layers[l].proto)

DataChain(d) == LayersFrom(datas[d].proto)

\* C21: no layer on the delegation chain of a record's data object holds an
\* accessor property made from an accessor-tagged member; such a member is a
\* property of the facade of the layer that declared it and of nothing else.
C21_AccessorsOnlyOnFacade ==
    \A c \in Identities, o \in Owners :
        HasRecord(c, o) =>
            \A l \in DataChain(RecordAt(c, o).data) :
                \A k \in DOMAIN layers[l].props :
                    layers[l].props[k].kind # "acc"

----------------------------------------------------------------------------
(* C22: the chain of $uper objects *)

\* s.$uper for a $uper object s: the $uper object the property refers to, 0
\* when the property is missing or holds something else.  Line 155 defines
\* "$uper" on the facade only; a $uper object has the descriptors lines 158-166
\* copied to it and those of its prototypes
UperOf(s) ==
    LET desc == SuperLookup(Heap, s, "$uper") IN
    IF desc.kind = "data" /\ desc.value.t = "super" THEN desc.value.id ELSE 0

\* the $uper objects reached from s by reading the property $uper repeatedly
RECURSIVE UperWalk(_)
UperWalk(s) == IF s = 0 THEN {} ELSE {s} \cup UperWalk(UperOf(s))

\* the layer registered just before g in the chain of g
Below(g) ==
    LET older == {p \in Lineage(g) : p < g} IN
    IF older = {} THEN 0 ELSE CHOOSE p \in older : \A q \in older : q <= p

\* every $uper object of the chain of f has the $uper object of the layer
\* below as its prototype
UperDelegates(f) ==
    \A g \in Lineage(f) :
        Below(g) # 0 => supers[facades[g].super].proto = facades[Below(g)].super

\* C22: for a chain of layers registered base to derived, the $uper object of
\* each layer delegates to the $uper object of the layer below, and reading
\* $uper repeatedly from the most derived facade reaches the $uper object of
\* every layer of the chain.
C22_UperWalkReachesAll ==
    \A f \in 1..Len(facades) :
        ChainOk(f) =>
            /\ UperDelegates(f)
            /\ UperWalk(facades[f].super) = {facades[g].super : g \in Lineage(f)}

----------------------------------------------------------------------------
(* C23: functions are bound to the owner *)

\* the owners of the layers facade f stands on
LineageOwners(f) == {facades[g].owner : g \in Lineage(f)}

\* fn is an ordinary function: neither an arrow function nor bound before
\* share saw it
Ordinary(fn) == fn.lex = Absent

\* descriptor desc, found from facade f, holds functions bound to the owner of
\* the layer that declared them: a method to the owner of the registration
\* that stored it, the get and set of an accessor to the owner of the chain
BoundToOwner(f, desc) ==
    /\ desc.kind = "acc" => desc.recv \in LineageOwners(f)
    /\ (desc.kind = "data" /\ desc.value.t = "fn") =>
           desc.value.recv = facades[desc.value.fac].owner

\* what facade f finds for key k in its data object (0 stands for no facade)
FoundThrough(f, k) ==
    LET g == FacadeFind(Heap, f, k) IN
    IF g # 0 /\ k \in facades[g].keys
    THEN DataLookup(Heap, facades[g].data, k)
    ELSE NoDesc

\* desc holds no function, or one that is an ordinary function
OrdinaryIn(desc) ==
    (desc.kind = "data" /\ desc.value.t = "fn") => Ordinary(desc.value)

\* every function reached through a facade or its $uper is bound
AllBound ==
    \A f \in 1..Len(facades), k \in {"f", "k"} :
        /\ BoundToOwner(f, FoundThrough(f, k))
        /\ BoundToOwner(f, SuperLookup(Heap, facades[f].super, k))

\* every ordinary function reached through a facade or its $uper is bound
OrdinaryBound ==
    \A f \in 1..Len(facades), k \in {"f", "k"} :
        /\ OrdinaryIn(FoundThrough(f, k)) => BoundToOwner(f, FoundThrough(f, k))
        /\ OrdinaryIn(SuperLookup(Heap, facades[f].super, k)) =>
               BoundToOwner(f, SuperLookup(Heap, facades[f].super, k))

\* a read or a call that follows a read or a call of the same member through
\* the same facade, no write and no registration between the two, obtained
\* the function the earlier one obtained: the same function object
SameFunctionAgain ==
    (result.op \in {"read", "call"} /\ result.last.t = "fn") =>
        result.fn = result.last

\* C23: every method and every accessor function of a registered layer is
\* bound to the owner the layer was registered for, whether reached through
\* the layer's facade, a descendant's facade or $uper; a method that is called
\* runs with that owner as receiver; and two reads of a method with no write
\* or registration between them return the same function.
C23_FunctionsBoundToOwner ==
    /\ AllBound
    /\ (result.op = "call" /\ result.fn.t = "fn") =>
           result.recv = facades[result.fn.fac].owner
    /\ SameFunctionAgain

\* C23 (amended): every ordinary function of a registered layer (a method, or
\* the get or set of an accessor, that is neither an arrow function nor
\* already bound) is bound to the owner the layer was registered for, whether
\* reached through the layer's facade, a descendant's facade or $uper, and
\* runs with that owner as receiver when called; and two reads of a method,
\* of whatever kind, with no write or registration between them return the
\* same function.
C23_OrdinaryFunctionsBoundToOwner ==
    /\ OrdinaryBound
    /\ (result.op = "call" /\ result.fn.t = "fn" /\ Ordinary(result.fn)) =>
           result.recv = facades[result.fn.fac].owner
    /\ SameFunctionAgain

\* a facade of instance o1 read the method f and then called it: the read
\* and the call obtained the same function, the one the registration of the
\* facade's layer bound, and the method ran with o1 as receiver and returned 1
C23_Witness ==
    /\ result.op = "call"
    /\ result.ok
    /\ result.args = <<"f", "facade">>
    /\ Ordinary(result.fn)
    /\ result.last.t = "fn"
    /\ result.fn.id = result.last.id
    /\ result.fn.id = <<result.fac, "f">>
    /\ facades[result.fac].owner = "o1"
    /\ result.recv = "o1"
    /\ result.ret = Num(1)

----------------------------------------------------------------------------
(* C24: static sharing of sibling classes *)

\* Base registered statically first and every class registered at most once
BaseThenOnce ==
    /\ Len(facades) >= 1
    /\ facades[1].klass = "Base"
    /\ \A f \in 1..Len(facades) : Static(f)
    /\ \A f, g \in 1..Len(facades) : facades[f].klass = facades[g].klass => f = g

\* C24: when Base shares k statically and its subclasses Derived and Sibling
\* share k statically afterwards, in either order, the static facade of each
\* of the three classes reads the definition of k its own class registered.
C24_SiblingsKeepOwnDefinition ==
    BaseThenOnce =>
        \A f \in 1..Len(facades) :
            FacadeGet(Heap, f, "k") = Declared(Heap, f, "k")

----------------------------------------------------------------------------
(* C25: the ancestor a new layer is seeded from *)

\* ancestor a of class c is the nearest one that holds a record for owner o
NearestHolder(a, c, o) ==
    /\ IsAncestor(a, c)
    /\ HasRecord(a, o)
    /\ \A m \in StrictlyBetween(a, c) : ~HasRecord(m, o)

\* C25: when share(o, C, m) returns for an instance o, the new record holds the
\* data object of o's record at the nearest ancestor of C that holds a record
\* for o, and the new facade delegates to that record's facade, also when a
\* class between the two is registered only for other owners.
C25_SeedFromNearestHolder ==
    [][\A o \in Instances, c \in Identities, a \in Identities :
          (/\ result'.op = "share"
           /\ result'.ok
           /\ facades'[result'.fac].owner = o
           /\ facades'[result'.fac].klass = c
           /\ NearestHolder(a, c, o)) =>
              /\ maps'[memos'[c]][o].data = RecordAt(a, o).data
              /\ facades'[result'.fac].proto = RecordAt(a, o).inheritance]_vars

====
